---- MODULE Spec2Model ----
(***************************************************************************)
(* Model of csv_to_motec.py: one conversion run of main() and              *)
(* convert_csv_to_motec_fixed(): read the CSV rows (with the optional      *)
(* --samples cap), estimate the sampling frequency from the first two      *)
(* rows, build the channel table, encode every row, hand the log to the    *)
(* writer.                                                                 *)
(*                                                                         *)
(* A CSV field is a text (a string).  float(text) is modelled by Float,    *)
(* which maps a text to an exception or to a parsed double.  A parsed      *)
(* double is a record [cls, v]:                                            *)
(*   cls = "fin"  : the finite value v / OneSecond (v in milliseconds)     *)
(*   cls = "tiny" : a subnormal of sign v (1 or -1) whose reciprocal       *)
(*                  overflows to infinity (the text "1e-320")              *)
(*                                                                         *)
(* motec_ld is the external container writer.  The model records the calls *)
(* made to it: a call of the channel try may raise (the except branch of   *)
(* the channel loop), log.add_samples and log.to_string return.            *)
(***************************************************************************)
EXTENDS Integers, Sequences, FiniteSets, TLC

\* ---------------------------------------------------------------- bounds
\* Largest number of data rows (lines after the header) in the input file.
MaxRows == 2
\* Largest number of fields in one CSV row.
MaxCols == 3
\* Number of entries of ALL_CHANNELS that the model keeps (the first ones).
NumChannels == 2

\* ------------------------------------------------------- program constants
\* freq = 500
DefaultFreq == 500
\* "id": 8000 + i
IdBase == 8000
\* the numerator 1.0 (one second) of 1.0 / dt, in the model's millisecond unit
OneSecond == 1000

\* ------------------------------------------------------------ ALL_CHANNELS
AllChannelsSource ==
  << [col_idx |-> 1, csv_name |-> "TS", display_name |-> "Time",
      short_name |-> "Time", units |-> "s"],
     [col_idx |-> 2, csv_name |-> "F_BRAKEPRESSURE",
      display_name |-> "Front Brake Pressure", short_name |-> "F_BrkPrs",
      units |-> "kPa"],
     [col_idx |-> 3, csv_name |-> "R_BRAKEPRESSURE",
      display_name |-> "Rear Brake Pressure", short_name |-> "R_BrkPrs",
      units |-> "kPa"],
     [col_idx |-> 4, csv_name |-> "STEERING", display_name |-> "Steering",
      short_name |-> "Steering", units |-> "deg"] >>

ALL_CHANNELS == SubSeq(AllChannelsSource, 1, NumChannels)

\* ------------------------------------------------------------------ floats
Fin(n) == [cls |-> "fin", v |-> n]
Tiny(s) == [cls |-> "tiny", v |-> s]
Zero == Fin(0)

\* float(text): the parsed double, or ValueError.
Float(s) ==
  CASE s = "0"      -> [exc |-> "none", val |-> Fin(0)]
    [] s = "0.004"  -> [exc |-> "none", val |-> Fin(4)]
    [] s = "2.5"    -> [exc |-> "none", val |-> Fin(2500)]
    [] s = "7.5"    -> [exc |-> "none", val |-> Fin(7500)]
    [] s = "1e-320" -> [exc |-> "none", val |-> Tiny(1)]
    [] OTHER        -> [exc |-> "ValueError", val |-> Zero]

\* a - b on doubles: a subnormal is absorbed by any non-zero finite value.
FSub(a, b) ==
  CASE a.cls = "fin" /\ b.cls = "fin"   -> Fin(a.v - b.v)
    [] a.cls = "tiny" /\ b.cls = "tiny" ->
         IF a.v = b.v THEN Zero ELSE Tiny(a.v)
    [] a.cls = "tiny" /\ b.cls = "fin"  ->
         IF b.v = 0 THEN a ELSE Fin(0 - b.v)
    [] a.cls = "fin" /\ b.cls = "tiny"  ->
         IF a.v = 0 THEN Tiny(0 - b.v) ELSE a

\* dt > 0
FPositive(d) == d.v > 0

\* int(1.0 / dt) for dt > 0: 1.0 / dt is infinite for a subnormal dt and
\* int(inf) raises OverflowError.
IntReciprocal(d) ==
  IF d.cls = "tiny"
    THEN [exc |-> "OverflowError", val |-> 0]
    ELSE [exc |-> "none", val |-> OneSecond \div d.v]

\* row[k] with a Python (0-based, non-negative) index.
Index(row, k) ==
  IF k < Len(row)
    THEN [exc |-> "none", val |-> row[k + 1]]
    ELSE [exc |-> "IndexError", val |-> ""]

\* --------------------------------------------------------------- the input
HeaderRow == << "", "TS", "F_BRAKEPRESSURE" >>

TimeTexts == { "", "None", "abc", "0", "0.004", "2.5", "1e-320" }
ValueTexts == { "7.5" }

\* the texts a field at (0-based) column c may hold
FieldTexts(c) ==
  IF c = 0 THEN { "0" } ELSE IF c = 1 THEN TimeTexts ELSE ValueTexts

RECURSIVE RowsOfLen(_)
RowsOfLen(n) ==
  IF n = 0 THEN { << >> }
  ELSE { Append(r, t) : r \in RowsOfLen(n - 1), t \in FieldTexts(n - 1) }

Rows == UNION { RowsOfLen(n) : n \in 0 .. MaxCols }

RECURSIVE DataOfLen(_)
DataOfLen(n) ==
  IF n = 0 THEN { << >> }
  ELSE { Append(d, r) : d \in DataOfLen(n - 1), r \in Rows }

\* The lines of an existing input file: none at all, or a header followed by
\* up to MaxRows data rows.
Files ==
  { << >> } \cup
  { << HeaderRow >> \o d : d \in UNION { DataOfLen(n) : n \in 0 .. MaxRows } }

\* args.samples: None (flag absent) or an integer; a file with fewer than
\* MaxRows rows makes the larger caps exceed its number of rows.
NoCap == [some |-> FALSE, val |-> 0]
Caps == { NoCap } \cup { [some |-> TRUE, val |-> n] : n \in 0 .. MaxRows }

VARIABLES
  pc,              \* position in the run
  importOk,        \* "from motec_ld import ..." succeeds
  exists,          \* os.path.exists(args.csv_file)
  file,            \* the lines of the input file
  max_samples,     \* args.samples
  data,            \* data
  freq,            \* freq
  freqCount,       \* number of times the frequency has been calculated
  i,               \* index of the channel loop (0-based, as enumerate)
  channels_added,  \* channels_added
  table,           \* the channels passed to log.add_channel, in call order
  skipped,         \* positions whose "ERROR adding ..." diagnostic was printed
  row_idx,         \* index of the sample loop (0-based)
  logSamples,      \* the rows passed to log.add_samples, in call order
  sample_count,    \* sample_count
  handed           \* per log.to_string() call: what the log was given before

vars == << pc, importOk, exists, file, max_samples, data, freq, freqCount, i,
           channels_added, table, skipped, row_idx, logSamples, sample_count,
           handed >>

\* ------------------------------------------------------------------- reading
\* "if max_samples": None and 0 are both falsy.
Truthy(m) == m.some /\ m.val # 0

\* for i, row in enumerate(reader): if max_samples and i >= max_samples: break
RECURSIVE ReadLoop(_, _, _, _)
ReadLoop(rows, k, m, acc) ==
  IF k >= Len(rows) THEN acc
  ELSE IF Truthy(m) /\ k >= m.val THEN acc
  ELSE ReadLoop(rows, k + 1, m, Append(acc, rows[k + 1]))

\* ----------------------------------------------------------- the frequency
\* dt = float(data[1][1]) - float(data[0][1]); if dt > 0: freq = int(1.0 / dt)
\* The result is [exc, val]: exc is the exception raised inside the try.
FreqBody(d) ==
  LET f1 == Index(d[2], 1)
      p1 == Float(f1.val)
      f0 == Index(d[1], 1)
      p0 == Float(f0.val)
      dt == FSub(p1.val, p0.val)
      q  == IntReciprocal(dt)
  IN  IF f1.exc # "none" THEN [exc |-> f1.exc, val |-> DefaultFreq]
      ELSE IF p1.exc # "none" THEN [exc |-> p1.exc, val |-> DefaultFreq]
      ELSE IF f0.exc # "none" THEN [exc |-> f0.exc, val |-> DefaultFreq]
      ELSE IF p0.exc # "none" THEN [exc |-> p0.exc, val |-> DefaultFreq]
      ELSE IF ~ FPositive(dt) THEN [exc |-> "none", val |-> DefaultFreq]
      ELSE IF q.exc # "none" THEN [exc |-> q.exc, val |-> DefaultFreq]
      ELSE [exc |-> "none", val |-> q.val]

\* variant: the guard written as len(data) > 2
EstimateFreqStrict(d) ==
  IF Len(d) > 2
    THEN LET r == FreqBody(d)
         IN  IF r.exc # "none" THEN DefaultFreq ELSE r.val
    ELSE DefaultFreq

\* freq = 500; if len(data) >= 2: try: ... except: pass
\* (the bare except absorbs every exception, freq keeps its default)
EstimateFreq(d) ==
  IF Len(d) >= 2
    THEN LET r == FreqBody(d)
         IN  IF r.exc # "none" THEN DefaultFreq ELSE r.val
    ELSE DefaultFreq

\* ------------------------------------------------------------------ actions
Init ==
  /\ pc = "import"
  /\ importOk \in BOOLEAN
  /\ exists \in BOOLEAN
  /\ \/ /\ importOk /\ exists
        /\ file \in Files
        /\ max_samples \in Caps
     \/ /\ ~ (importOk /\ exists)
        /\ file = << >>
        /\ max_samples = NoCap
  /\ data = << >>
  /\ freq = DefaultFreq
  /\ freqCount = 0
  /\ i = 0
  /\ channels_added = << >>
  /\ table = << >>
  /\ skipped = { }
  /\ row_idx = 0
  /\ logSamples = << >>
  /\ sample_count = 0
  /\ handed = << >>

\* try: from motec_ld import ... except ImportError: sys.exit(1)
ImportLib ==
  /\ pc = "import"
  /\ pc' = IF importOk THEN "main" ELSE "exit1"
  /\ UNCHANGED << importOk, exists, file, max_samples, data, freq, freqCount,
                  i, channels_added, table, skipped, row_idx, logSamples,
                  sample_count, handed >>

\* if not os.path.exists(args.csv_file): sys.exit(1)
CheckExists ==
  /\ pc = "main"
  /\ pc' = IF exists THEN "read" ELSE "exit1"
  /\ UNCHANGED << importOk, exists, file, max_samples, data, freq, freqCount,
                  i, channels_added, table, skipped, row_idx, logSamples,
                  sample_count, handed >>

\* header = next(reader) raises StopIteration on a file without lines;
\* otherwise the read loop fills data.
ReadCsv ==
  /\ pc = "read"
  /\ IF Len(file) = 0
       THEN /\ pc' = "crash_read"
            /\ data' = data
       ELSE /\ pc' = "freq"
            /\ data' = ReadLoop(Tail(file), 0, max_samples, << >>)
  /\ UNCHANGED << importOk, exists, file, max_samples, freq, freqCount, i,
                  channels_added, table, skipped, row_idx, logSamples,
                  sample_count, handed >>

CalcFrequency ==
  /\ pc = "freq"
  /\ freq' = EstimateFreq(data)
  /\ pc' = "channels"
  /\ freqCount' = freqCount + 1
  /\ i' = 0
  /\ UNCHANGED << importOk, exists, file, max_samples, data, channels_added,
                  table, skipped, row_idx, logSamples, sample_count, handed >>

\* ------------------------------------------------------- the channel table
\* channel_def of the entry at (0-based) position k of ALL_CHANNELS
\* (every short name of ALL_CHANNELS has at most 8 characters, so
\* short_name[:8] is the short name)
ChannelDef(k, spec, f) ==
  [ name |-> spec.display_name, shortname |-> spec.short_name,
    units |-> spec.units, id |-> IdBase + k, freq |-> f,
    shift |-> 0, multiplier |-> 1, scale |-> 1, decplaces |-> 0,
    datatype |-> 7, datasize |-> 4 ]

\* log.add_channel(channel) returned: the call is recorded, in call order
add_channel(channels, channel) == Append(channels, channel)

\* the try block of the channel loop: built is FALSE when MotecChannel(...)
\* or log.add_channel(...) raises, and then the except branch only prints
TableAfter(channels, k, spec, f, built) ==
  IF built THEN add_channel(channels, ChannelDef(k, spec, f)) ELSE channels

\* variant: the column is recorded before the descriptor is built
ChannelsAddedAlways(added, spec, built) ==
  Append(added, [col_idx |-> spec.col_idx, csv_name |-> spec.csv_name])

ChannelsAddedAfter(added, spec, built) ==
  IF built
    THEN Append(added, [col_idx |-> spec.col_idx, csv_name |-> spec.csv_name])
    ELSE added

AddChannel ==
  /\ pc = "channels"
  /\ i < Len(ALL_CHANNELS)
  /\ \E built \in BOOLEAN :
       /\ table' = TableAfter(table, i, ALL_CHANNELS[i + 1], freq, built)
       /\ channels_added' =
            ChannelsAddedAfter(channels_added, ALL_CHANNELS[i + 1], built)
       /\ skipped' = IF built THEN skipped ELSE skipped \cup { i }
  /\ i' = i + 1
  /\ pc' = IF i + 1 < Len(ALL_CHANNELS) THEN "channels" ELSE "samples"
  /\ row_idx' = 0
  /\ sample_count' = 0
  /\ UNCHANGED << importOk, exists, file, max_samples, data, freq, freqCount,
                  logSamples, handed >>

\* ---------------------------------------------------------------- encoding
\* variant: the handler written as "except ValueError"
EncodeCaughtValueOnly == { "ValueError" }

\* the exceptions "except (IndexError, ValueError)" absorbs
EncodeCaught == { "IndexError", "ValueError" }

\* variant: the parsed value rounded to decplaces = 0
SampleValueRounded(row, col_idx) ==
  LET f == Index(row, col_idx)
      p == Float(f.val)
  IN  IF f.exc # "none" THEN [exc |-> f.exc, val |-> Zero]
      ELSE IF f.val = "None" \/ f.val = ""
        THEN [exc |-> "none", val |-> Zero]
      ELSE IF p.exc = "none" /\ p.val.cls = "fin"
        THEN [exc |-> "none",
              val |-> Fin((p.val.v \div OneSecond) * OneSecond)]
        ELSE p

\* the body of the inner try: val_str = row[col_idx]; 'None' and '' give
\* 0.0, anything else float(val_str)
SampleValue(row, col_idx) ==
  LET f == Index(row, col_idx)
  IN  IF f.exc # "none" THEN [exc |-> f.exc, val |-> Zero]
      ELSE IF f.val = "None" \/ f.val = ""
        THEN [exc |-> "none", val |-> Zero]
        ELSE Float(f.val)

\* for col_idx, csv_name in channels_added: ... samples.append(...)
RECURSIVE EncodeLoop(_, _, _, _)
EncodeLoop(row, added, j, samples) ==
  IF j > Len(added) THEN [exc |-> "none", val |-> samples]
  ELSE LET r == SampleValue(row, added[j].col_idx)
       IN  IF r.exc = "none"
             THEN EncodeLoop(row, added, j + 1, Append(samples, r.val))
           ELSE IF r.exc \in EncodeCaught
             THEN EncodeLoop(row, added, j + 1, Append(samples, Zero))
           ELSE [exc |-> r.exc, val |-> samples]

EncodeSamples(row, added) == EncodeLoop(row, added, 1, << >>)

\* log.add_samples(samples): the call is recorded, in call order
add_samples(rows, samples) == Append(rows, samples)

\* variant: a blank line of the file (a row without fields) is skipped
SamplesAfterSkipBlank(rows, row, added) ==
  IF Len(row) = 0
    THEN rows
    ELSE Append(rows, EncodeLoop(row, added, 1, << >>).val)

\* one iteration of "for row_idx, row in enumerate(data)"
SamplesAfter(rows, row, added) ==
  add_samples(rows, EncodeSamples(row, added).val)

EncodeRow ==
  /\ pc = "samples"
  /\ row_idx < Len(data)
  /\ LET r == EncodeSamples(data[row_idx + 1], channels_added)
     IN  IF r.exc = "none"
           THEN /\ logSamples' =
                     SamplesAfter(logSamples, data[row_idx + 1], channels_added)
                /\ sample_count' = sample_count + 1
                /\ row_idx' = row_idx + 1
                /\ pc' = pc
           ELSE /\ pc' = "crash_samples"
                /\ UNCHANGED << logSamples, sample_count, row_idx >>
  /\ UNCHANGED << importOk, exists, file, max_samples, data, freq, freqCount,
                  i, channels_added, table, skipped, handed >>

\* variant: the write does not wait for the sample loop to finish
WriteOutputEarly ==
  /\ pc = "samples"
  /\ handed' = Append(handed, [channels |-> table, rows |-> logSamples])
  /\ pc' = "done"
  /\ UNCHANGED << importOk, exists, file, max_samples, data, freq, freqCount,
                  i, channels_added, table, skipped, row_idx, logSamples,
                  sample_count >>

\* f.write(log.to_string()): the writer is handed the channels and the rows
\* the log was given
WriteOutput ==
  /\ pc = "samples"
  /\ row_idx >= Len(data)
  /\ handed' = Append(handed, [channels |-> table, rows |-> logSamples])
  /\ pc' = "done"
  /\ UNCHANGED << importOk, exists, file, max_samples, data, freq, freqCount,
                  i, channels_added, table, skipped, row_idx, logSamples,
                  sample_count >>

Next ==
  \/ ImportLib
  \/ CheckExists
  \/ ReadCsv
  \/ CalcFrequency
  \/ AddChannel
  \/ EncodeRow
  \/ WriteOutput

Spec == Init /\ [][Next]_vars

\* ================================================================== claims
\* positions of the run after the rows were read / after the frequency step
AfterRead == pc \in { "freq", "channels", "samples", "done", "crash_samples" }
AfterFreq == pc \in { "channels", "samples", "done", "crash_samples" }

\* the data rows of the input file (the lines after the header)
InputRows == IF Len(file) = 0 THEN << >> ELSE Tail(file)

Min(a, b) == IF a <= b THEN a ELSE b

\* the time field of a row (column index 1) is present and parses
TimeParsable(row) == Len(row) >= 2 /\ Float(row[2]).exc = "none"
TimeOf(row) == Float(row[2]).val

\* f = floor(1 / d) for a positive double d; the reciprocal of a subnormal
\* exceeds every finite double, hence every frequency below OneSecond * 2
IsFloorOfReciprocal(f, d) ==
  IF d.cls = "tiny"
    THEN f > OneSecond * 2
    ELSE f * d.v <= OneSecond /\ OneSecond < (f + 1) * d.v

\* the first two rows define a positive time delta
HasPositiveDt ==
  /\ Len(data) >= 2
  /\ TimeParsable(data[1]) /\ TimeParsable(data[2])
  /\ FSub(TimeOf(data[2]), TimeOf(data[1])).v > 0

FirstDt == FSub(TimeOf(data[2]), TimeOf(data[1]))

C2_IdsContiguousFromBase ==
  \A p \in 1 .. Len(table) : table[p].id = IdBase + (p - 1)

\* C3: with a cap, the rows processed and the rows encoded number
\* min(cap, rows of the input), for every cap >= 0; without a cap all rows
\* are processed; the rows kept are the first ones in input order.
C3_RowCap ==
  LET n == IF max_samples.some
             THEN Min(max_samples.val, Len(InputRows))
             ELSE Len(InputRows)
  IN  /\ AfterRead => data = SubSeq(InputRows, 1, n)
      /\ pc = "done" => Len(handed[1].rows) = n

\* the value claimed for the field of a row at source column c
ClaimedValue(row, c) ==
  IF c >= Len(row) THEN Zero
  ELSE IF row[c + 1] = "" THEN Zero
  ELSE IF row[c + 1] = "None" THEN Zero
  ELSE IF Float(row[c + 1]).exc # "none" THEN Zero
  ELSE Float(row[c + 1]).val

\* C4: encoding a processed row never raises, and every encoded row has as
\* many values as the channel table has descriptors.
C4_EncodeTotalAndArity ==
  /\ pc # "crash_samples"
  /\ \A k \in 1 .. Len(logSamples) : Len(logSamples[k]) = Len(table)

C4_Witness ==
  /\ Len(table) = 2
  /\ Len(logSamples) = 2
  /\ Len(data[1]) = 0
  /\ Len(data[2]) = 2 /\ data[2][2] = "abc"

\* C5: the value encoded for an accepted channel is 0.0 when the field is
\* absent, empty, 'None' or unparsable, and the parsed number otherwise.
C5_EncodedValue ==
  \A k \in 1 .. Len(logSamples) :
    \A j \in 1 .. Len(logSamples[k]) :
      j <= Len(channels_added) /\
      logSamples[k][j] = ClaimedValue(data[k], channels_added[j].col_idx)

C5_Witness ==
  /\ Len(logSamples) = 2
  /\ Len(channels_added) = 2
  /\ data[1] = << "0", "None", "7.5" >>
  /\ data[2] = << "0", "" >>
  /\ logSamples[1] = << Zero, Fin(7500) >>
  /\ logSamples[2] = << Zero, Zero >>

\* C6: for an existing input file of any content the run is not aborted;
\* only a missing file or a failed import end it, with exit code 1.
C6_NeverAborted ==
  /\ pc \notin { "crash_read", "crash_samples" }
  /\ pc = "exit1" => ~ importOk \/ ~ exists

\* the encoding claimed for a row, given the accepted source columns
ClaimedRow(row, cols) ==
  [ j \in 1 .. Len(cols) |-> ClaimedValue(row, cols[j]) ]

AcceptedCols == [ j \in 1 .. Len(channels_added) |-> channels_added[j].col_idx ]

\* C7: the rows handed to the writer are the encodings of the processed
\* rows, one per row, in input order.
C7_RowsInOrder ==
  /\ pc = "samples" => Len(logSamples) = row_idx
  /\ \A h \in 1 .. Len(handed) :
       /\ Len(handed[h].rows) = Len(data)
       /\ \A k \in 1 .. Len(data) :
            handed[h].rows[k] = ClaimedRow(data[k], AcceptedCols)

C7_Witness ==
  /\ pc = "done"
  /\ Len(handed) = 1
  /\ Len(handed[1].rows) = 2
  /\ Len(channels_added) >= 1
  /\ Len(data[1]) = 0
  /\ handed[1].rows[1] # handed[1].rows[2]

\* C8: the frequency is estimated once, before any descriptor is built; the
\* table is complete before the first row is encoded and never changes
\* afterwards; the writer is invoked once, after every row was encoded.
C8_PhaseState ==
  /\ freqCount <= 1
  /\ (i > 0 \/ Len(table) > 0) => freqCount = 1
  /\ \A p \in 1 .. Len(table) : table[p].freq = freq
  /\ i <= Len(ALL_CHANNELS)
  /\ Len(logSamples) > 0 => i = Len(ALL_CHANNELS)
  /\ Len(handed) <= 1
  /\ Len(handed) = 1 =>
       /\ pc = "done"
       /\ Len(logSamples) = Len(data)
       /\ handed[1].rows = logSamples
       /\ handed[1].channels = table
  /\ pc = "done" => Len(handed) = 1 /\ freqCount = 1

C8_PhaseStep ==
  /\ (i > 0 \/ Len(table) > 0) => freq' = freq /\ freqCount' = freqCount
  /\ i' # i => i' = i + 1 /\ Len(logSamples) = 0
  /\ Len(logSamples) > 0 => table' = table /\ channels_added' = channels_added
  /\ Len(handed) = 1 => handed' = handed /\ logSamples' = logSamples

C8_PhaseOrder == [] C8_PhaseState /\ [][ C8_PhaseStep ]_vars

C8_Witness ==
  /\ pc = "done"
  /\ freqCount = 1
  /\ Len(table) = 2
  /\ Len(handed) = 1 /\ Len(handed[1].rows) = 2

\* the source column of the ALL_CHANNELS entry a descriptor was built from
ColOfDescriptor(d) ==
  ALL_CHANNELS[CHOOSE k \in 1 .. Len(ALL_CHANNELS) :
                 ALL_CHANNELS[k].display_name = d.name].col_idx

\* C9: a spec whose descriptor fails is left out and building continues;
\* channels_added matches the table entry by entry, the table is no longer
\* than the spec list and as long when nothing failed, and the encoder
\* reads exactly the accepted columns.
C9_AcceptedMatchesTable ==
  /\ Len(channels_added) = Len(table)
  /\ \A j \in 1 .. Len(table) :
       j <= Len(channels_added) =>
         channels_added[j].col_idx = ColOfDescriptor(table[j])
  /\ Len(table) + Cardinality(skipped) = i
  /\ Len(table) <= Len(ALL_CHANNELS)
  /\ (AfterFreq /\ pc # "channels" /\ skipped = { }) =>
       Len(table) = Len(ALL_CHANNELS)
  /\ \A k \in 1 .. Len(logSamples) :
       logSamples[k] =
         [ j \in 1 .. Len(table) |->
             ClaimedValue(data[k], ColOfDescriptor(table[j])) ]

C9_Witness ==
  /\ pc = "done"
  /\ skipped = { 0 }
  /\ Len(table) = 1 /\ table[1].name = "Front Brake Pressure"
  /\ channels_added[1].col_idx = 2
  /\ Len(logSamples) = 2
  /\ logSamples[1] = << Fin(7500) >>

\* C10: the frequency written into every descriptor is a positive integer.
C10_FreqPositive ==
  /\ AfterFreq => freq >= 1
  /\ \A p \in 1 .. Len(table) : table[p].freq >= 1
====
